---- MODULE Spec2Model ----
(***************************************************************************)
(* Model of the sigla pipeline of bible_sigla/sigla: the alias table and   *)
(* its key normalizer, the regex scanner and query builder of              *)
(* find_references, the resolver resolve_references and the request        *)
(* handlers UploadView.form_valid and UploadView.form_invalid.             *)
(*                                                                         *)
(* A character is a string: an ASCII character stands for itself and any   *)
(* other character is written "U+XXXX" (its code point).  A Python str is  *)
(* a sequence of characters.                                               *)
(***************************************************************************)
EXTENDS FiniteSets, Integers, Sequences, TLC

VARIABLES
    table,       \* the module global _BOOK_ALIASES (dict: key -> book)
    imp,         \* number of (key, book) insertions done by the import loop
    pc,          \* position of the running call
    entry,       \* the entry point that was called: "view" (form_valid),
                 \* "form_invalid", "resolve" or None
    page,        \* what is printed on the uploaded page (the OCR's input)
    text,        \* the str extract_text returned, None before it returned
    pos,         \* find_references: offset at which finditer resumes
    pending,     \* find_references: references of the current match still to be looked at
    references,  \* find_references: the list `references`
    seen,        \* find_references: the set `seen`
    built,       \* log of the calls of _build_reference: [raw, book, chapter, verses, query, signal]
    skipped,     \* log of the matches dropped for an unknown book token
    todo,        \* resolve_references: the input references not yet visited
    input,       \* resolve_references: the whole input sequence
    results,     \* resolve_references: the list `results`
    calls,       \* log of the pipeline functions entered, in order
    msgs,        \* django messages added to the request
    response     \* what form_valid returned, None while it runs

vars == <<table, imp, pc, entry, page, text, pos, pending, references, seen,
          built, skipped, todo, input, results, calls, msgs, response>>

\* Python's None where a str-valued name (a book, a signal, a response) may
\* be None.  An Optional[str] or Optional[Match] is <<>> (None) or <<v>>.
None == "None"
Absent == <<>>
Some(v) == <<v>>

-----------------------------------------------------------------------------
(* Characters *)

\* Python's \d in a str pattern, and the digits int() reads: every Unicode
\* decimal digit (category Nd of Unicode 14), one row per script, each row
\* from the digit zero to the digit nine.
DigitRows == <<
    <<"0", "1", "2", "3", "4", "5", "6", "7", "8", "9">>,
    <<"U+0660", "U+0661", "U+0662", "U+0663", "U+0664", "U+0665", "U+0666", "U+0667", "U+0668", "U+0669">>,
    <<"U+06F0", "U+06F1", "U+06F2", "U+06F3", "U+06F4", "U+06F5", "U+06F6", "U+06F7", "U+06F8", "U+06F9">>,
    <<"U+07C0", "U+07C1", "U+07C2", "U+07C3", "U+07C4", "U+07C5", "U+07C6", "U+07C7", "U+07C8", "U+07C9">>,
    <<"U+0966", "U+0967", "U+0968", "U+0969", "U+096A", "U+096B", "U+096C", "U+096D", "U+096E", "U+096F">>,
    <<"U+09E6", "U+09E7", "U+09E8", "U+09E9", "U+09EA", "U+09EB", "U+09EC", "U+09ED", "U+09EE", "U+09EF">>,
    <<"U+0A66", "U+0A67", "U+0A68", "U+0A69", "U+0A6A", "U+0A6B", "U+0A6C", "U+0A6D", "U+0A6E", "U+0A6F">>,
    <<"U+0AE6", "U+0AE7", "U+0AE8", "U+0AE9", "U+0AEA", "U+0AEB", "U+0AEC", "U+0AED", "U+0AEE", "U+0AEF">>,
    <<"U+0B66", "U+0B67", "U+0B68", "U+0B69", "U+0B6A", "U+0B6B", "U+0B6C", "U+0B6D", "U+0B6E", "U+0B6F">>,
    <<"U+0BE6", "U+0BE7", "U+0BE8", "U+0BE9", "U+0BEA", "U+0BEB", "U+0BEC", "U+0BED", "U+0BEE", "U+0BEF">>,
    <<"U+0C66", "U+0C67", "U+0C68", "U+0C69", "U+0C6A", "U+0C6B", "U+0C6C", "U+0C6D", "U+0C6E", "U+0C6F">>,
    <<"U+0CE6", "U+0CE7", "U+0CE8", "U+0CE9", "U+0CEA", "U+0CEB", "U+0CEC", "U+0CED", "U+0CEE", "U+0CEF">>,
    <<"U+0D66", "U+0D67", "U+0D68", "U+0D69", "U+0D6A", "U+0D6B", "U+0D6C", "U+0D6D", "U+0D6E", "U+0D6F">>,
    <<"U+0DE6", "U+0DE7", "U+0DE8", "U+0DE9", "U+0DEA", "U+0DEB", "U+0DEC", "U+0DED", "U+0DEE", "U+0DEF">>,
    <<"U+0E50", "U+0E51", "U+0E52", "U+0E53", "U+0E54", "U+0E55", "U+0E56", "U+0E57", "U+0E58", "U+0E59">>,
    <<"U+0ED0", "U+0ED1", "U+0ED2", "U+0ED3", "U+0ED4", "U+0ED5", "U+0ED6", "U+0ED7", "U+0ED8", "U+0ED9">>,
    <<"U+0F20", "U+0F21", "U+0F22", "U+0F23", "U+0F24", "U+0F25", "U+0F26", "U+0F27", "U+0F28", "U+0F29">>,
    <<"U+1040", "U+1041", "U+1042", "U+1043", "U+1044", "U+1045", "U+1046", "U+1047", "U+1048", "U+1049">>,
    <<"U+1090", "U+1091", "U+1092", "U+1093", "U+1094", "U+1095", "U+1096", "U+1097", "U+1098", "U+1099">>,
    <<"U+17E0", "U+17E1", "U+17E2", "U+17E3", "U+17E4", "U+17E5", "U+17E6", "U+17E7", "U+17E8", "U+17E9">>,
    <<"U+1810", "U+1811", "U+1812", "U+1813", "U+1814", "U+1815", "U+1816", "U+1817", "U+1818", "U+1819">>,
    <<"U+1946", "U+1947", "U+1948", "U+1949", "U+194A", "U+194B", "U+194C", "U+194D", "U+194E", "U+194F">>,
    <<"U+19D0", "U+19D1", "U+19D2", "U+19D3", "U+19D4", "U+19D5", "U+19D6", "U+19D7", "U+19D8", "U+19D9">>,
    <<"U+1A80", "U+1A81", "U+1A82", "U+1A83", "U+1A84", "U+1A85", "U+1A86", "U+1A87", "U+1A88", "U+1A89">>,
    <<"U+1A90", "U+1A91", "U+1A92", "U+1A93", "U+1A94", "U+1A95", "U+1A96", "U+1A97", "U+1A98", "U+1A99">>,
    <<"U+1B50", "U+1B51", "U+1B52", "U+1B53", "U+1B54", "U+1B55", "U+1B56", "U+1B57", "U+1B58", "U+1B59">>,
    <<"U+1BB0", "U+1BB1", "U+1BB2", "U+1BB3", "U+1BB4", "U+1BB5", "U+1BB6", "U+1BB7", "U+1BB8", "U+1BB9">>,
    <<"U+1C40", "U+1C41", "U+1C42", "U+1C43", "U+1C44", "U+1C45", "U+1C46", "U+1C47", "U+1C48", "U+1C49">>,
    <<"U+1C50", "U+1C51", "U+1C52", "U+1C53", "U+1C54", "U+1C55", "U+1C56", "U+1C57", "U+1C58", "U+1C59">>,
    <<"U+A620", "U+A621", "U+A622", "U+A623", "U+A624", "U+A625", "U+A626", "U+A627", "U+A628", "U+A629">>,
    <<"U+A8D0", "U+A8D1", "U+A8D2", "U+A8D3", "U+A8D4", "U+A8D5", "U+A8D6", "U+A8D7", "U+A8D8", "U+A8D9">>,
    <<"U+A900", "U+A901", "U+A902", "U+A903", "U+A904", "U+A905", "U+A906", "U+A907", "U+A908", "U+A909">>,
    <<"U+A9D0", "U+A9D1", "U+A9D2", "U+A9D3", "U+A9D4", "U+A9D5", "U+A9D6", "U+A9D7", "U+A9D8", "U+A9D9">>,
    <<"U+A9F0", "U+A9F1", "U+A9F2", "U+A9F3", "U+A9F4", "U+A9F5", "U+A9F6", "U+A9F7", "U+A9F8", "U+A9F9">>,
    <<"U+AA50", "U+AA51", "U+AA52", "U+AA53", "U+AA54", "U+AA55", "U+AA56", "U+AA57", "U+AA58", "U+AA59">>,
    <<"U+ABF0", "U+ABF1", "U+ABF2", "U+ABF3", "U+ABF4", "U+ABF5", "U+ABF6", "U+ABF7", "U+ABF8", "U+ABF9">>,
    <<"U+FF10", "U+FF11", "U+FF12", "U+FF13", "U+FF14", "U+FF15", "U+FF16", "U+FF17", "U+FF18", "U+FF19">>,
    <<"U+104A0", "U+104A1", "U+104A2", "U+104A3", "U+104A4", "U+104A5", "U+104A6", "U+104A7", "U+104A8", "U+104A9">>,
    <<"U+10D30", "U+10D31", "U+10D32", "U+10D33", "U+10D34", "U+10D35", "U+10D36", "U+10D37", "U+10D38", "U+10D39">>,
    <<"U+11066", "U+11067", "U+11068", "U+11069", "U+1106A", "U+1106B", "U+1106C", "U+1106D", "U+1106E", "U+1106F">>,
    <<"U+110F0", "U+110F1", "U+110F2", "U+110F3", "U+110F4", "U+110F5", "U+110F6", "U+110F7", "U+110F8", "U+110F9">>,
    <<"U+11136", "U+11137", "U+11138", "U+11139", "U+1113A", "U+1113B", "U+1113C", "U+1113D", "U+1113E", "U+1113F">>,
    <<"U+111D0", "U+111D1", "U+111D2", "U+111D3", "U+111D4", "U+111D5", "U+111D6", "U+111D7", "U+111D8", "U+111D9">>,
    <<"U+112F0", "U+112F1", "U+112F2", "U+112F3", "U+112F4", "U+112F5", "U+112F6", "U+112F7", "U+112F8", "U+112F9">>,
    <<"U+11450", "U+11451", "U+11452", "U+11453", "U+11454", "U+11455", "U+11456", "U+11457", "U+11458", "U+11459">>,
    <<"U+114D0", "U+114D1", "U+114D2", "U+114D3", "U+114D4", "U+114D5", "U+114D6", "U+114D7", "U+114D8", "U+114D9">>,
    <<"U+11650", "U+11651", "U+11652", "U+11653", "U+11654", "U+11655", "U+11656", "U+11657", "U+11658", "U+11659">>,
    <<"U+116C0", "U+116C1", "U+116C2", "U+116C3", "U+116C4", "U+116C5", "U+116C6", "U+116C7", "U+116C8", "U+116C9">>,
    <<"U+11730", "U+11731", "U+11732", "U+11733", "U+11734", "U+11735", "U+11736", "U+11737", "U+11738", "U+11739">>,
    <<"U+118E0", "U+118E1", "U+118E2", "U+118E3", "U+118E4", "U+118E5", "U+118E6", "U+118E7", "U+118E8", "U+118E9">>,
    <<"U+11950", "U+11951", "U+11952", "U+11953", "U+11954", "U+11955", "U+11956", "U+11957", "U+11958", "U+11959">>,
    <<"U+11C50", "U+11C51", "U+11C52", "U+11C53", "U+11C54", "U+11C55", "U+11C56", "U+11C57", "U+11C58", "U+11C59">>,
    <<"U+11D50", "U+11D51", "U+11D52", "U+11D53", "U+11D54", "U+11D55", "U+11D56", "U+11D57", "U+11D58", "U+11D59">>,
    <<"U+11DA0", "U+11DA1", "U+11DA2", "U+11DA3", "U+11DA4", "U+11DA5", "U+11DA6", "U+11DA7", "U+11DA8", "U+11DA9">>,
    <<"U+16A60", "U+16A61", "U+16A62", "U+16A63", "U+16A64", "U+16A65", "U+16A66", "U+16A67", "U+16A68", "U+16A69">>,
    <<"U+16AC0", "U+16AC1", "U+16AC2", "U+16AC3", "U+16AC4", "U+16AC5", "U+16AC6", "U+16AC7", "U+16AC8", "U+16AC9">>,
    <<"U+16B50", "U+16B51", "U+16B52", "U+16B53", "U+16B54", "U+16B55", "U+16B56", "U+16B57", "U+16B58", "U+16B59">>,
    <<"U+1D7CE", "U+1D7CF", "U+1D7D0", "U+1D7D1", "U+1D7D2", "U+1D7D3", "U+1D7D4", "U+1D7D5", "U+1D7D6", "U+1D7D7">>,
    <<"U+1D7D8", "U+1D7D9", "U+1D7DA", "U+1D7DB", "U+1D7DC", "U+1D7DD", "U+1D7DE", "U+1D7DF", "U+1D7E0", "U+1D7E1">>,
    <<"U+1D7E2", "U+1D7E3", "U+1D7E4", "U+1D7E5", "U+1D7E6", "U+1D7E7", "U+1D7E8", "U+1D7E9", "U+1D7EA", "U+1D7EB">>,
    <<"U+1D7EC", "U+1D7ED", "U+1D7EE", "U+1D7EF", "U+1D7F0", "U+1D7F1", "U+1D7F2", "U+1D7F3", "U+1D7F4", "U+1D7F5">>,
    <<"U+1D7F6", "U+1D7F7", "U+1D7F8", "U+1D7F9", "U+1D7FA", "U+1D7FB", "U+1D7FC", "U+1D7FD", "U+1D7FE", "U+1D7FF">>,
    <<"U+1E140", "U+1E141", "U+1E142", "U+1E143", "U+1E144", "U+1E145", "U+1E146", "U+1E147", "U+1E148", "U+1E149">>,
    <<"U+1E2F0", "U+1E2F1", "U+1E2F2", "U+1E2F3", "U+1E2F4", "U+1E2F5", "U+1E2F6", "U+1E2F7", "U+1E2F8", "U+1E2F9">>,
    <<"U+1E950", "U+1E951", "U+1E952", "U+1E953", "U+1E954", "U+1E955", "U+1E956", "U+1E957", "U+1E958", "U+1E959">>,
    <<"U+1FBF0", "U+1FBF1", "U+1FBF2", "U+1FBF3", "U+1FBF4", "U+1FBF5", "U+1FBF6", "U+1FBF7", "U+1FBF8", "U+1FBF9">>>>
Digits == {DigitRows[r][i] : r \in DOMAIN DigitRows, i \in 1..10}
\* the digits str(n) writes
DigitSeq == DigitRows[1]
AsciiDigits == {DigitSeq[i] : i \in DOMAIN DigitSeq}
LowerSeq == <<"a","b","c","d","e","f","g","h","i","j","k","l","m",
              "n","o","p","q","r","s","t","u","v","w","x","y","z">>
UpperSeq == <<"A","B","C","D","E","F","G","H","I","J","K","L","M",
              "N","O","P","Q","R","S","T","U","V","W","X","Y","Z">>
AsciiLetters == {LowerSeq[i] : i \in DOMAIN LowerSeq} \cup {UpperSeq[i] : i \in DOMAIN UpperSeq}

\* Ą Ć Ę Ł Ń Ó Ś Ź Ż and ą ć ę ł ń ó ś ź ż
PolishUpper == {"U+0104", "U+0106", "U+0118", "U+0141", "U+0143", "U+00D3", "U+015A", "U+0179", "U+017B"}
PolishLower == {"U+0105", "U+0107", "U+0119", "U+0142", "U+0144", "U+00F3", "U+015B", "U+017A", "U+017C"}

\* The characters Python's \s matches in a str pattern, which are those
\* str.strip() strips: tab, line feed, vertical tab, form feed, carriage
\* return, the separators U+001C-U+001F, space, next line, no-break space
\* and the Unicode spaces and line and paragraph separators.
WhiteSpace ==
    {"\t", "\n", "U+000B", "\f", "\r", "U+001C", "U+001D", "U+001E", "U+001F", " ",
     "U+0085", "U+00A0", "U+1680", "U+2000", "U+2001", "U+2002", "U+2003", "U+2004",
     "U+2005", "U+2006", "U+2007", "U+2008", "U+2009", "U+200A", "U+2028", "U+2029",
     "U+202F", "U+205F", "U+3000"}
\* the whitespace characters with a compatibility decomposition, which is
\* the space for all of them
CompatSpaces ==
    {"U+00A0", "U+2000", "U+2001", "U+2002", "U+2003", "U+2004", "U+2005", "U+2006",
     "U+2007", "U+2008", "U+2009", "U+200A", "U+202F", "U+205F", "U+3000"}

\* Combining marks produced by decomposing the Polish letters:
\* acute U+0301, dot above U+0307, ogonek U+0328.
Combining == {"U+0301", "U+0307", "U+0328"}

\* unicodedata.normalize("NFKD", c) for one character: the Polish letters
\* with a mark split into the base letter and the mark, the no-break space
\* and the Unicode spaces turned into a space; L with stroke has no
\* decomposition.
NFKD(c) ==
    CASE c = "U+0104" -> <<"A", "U+0328">>
      [] c = "U+0105" -> <<"a", "U+0328">>
      [] c = "U+0106" -> <<"C", "U+0301">>
      [] c = "U+0107" -> <<"c", "U+0301">>
      [] c = "U+0118" -> <<"E", "U+0328">>
      [] c = "U+0119" -> <<"e", "U+0328">>
      [] c = "U+0143" -> <<"N", "U+0301">>
      [] c = "U+0144" -> <<"n", "U+0301">>
      [] c = "U+00D3" -> <<"O", "U+0301">>
      [] c = "U+00F3" -> <<"o", "U+0301">>
      [] c = "U+015A" -> <<"S", "U+0301">>
      [] c = "U+015B" -> <<"s", "U+0301">>
      [] c = "U+0179" -> <<"Z", "U+0301">>
      [] c = "U+017A" -> <<"z", "U+0301">>
      [] c = "U+017B" -> <<"Z", "U+0307">>
      [] c = "U+017C" -> <<"z", "U+0307">>
      [] c \in CompatSpaces -> <<" ">>
      [] OTHER -> <<c>>

\* str.upper() for one character (after NFKD and the L-stroke replacement
\* only ASCII letters are left to change).
Upper(c) ==
    IF \E i \in DOMAIN LowerSeq : LowerSeq[i] = c
    THEN UpperSeq[CHOOSE i \in DOMAIN LowerSeq : LowerSeq[i] = c]
    ELSE c

RECURSIVE Join(_)
\* "".join(parts)
Join(parts) ==
    IF parts = <<>> THEN <<>> ELSE Head(parts) \o Join(Tail(parts))

\* line 32: unicodedata.normalize("NFKD", raw)
Decompose(s) == Join([i \in DOMAIN s |-> NFKD(s[i])])
\* line 32: .replace("\u0141", "L").replace("\u0142", "l")
ReplaceLStroke(s) ==
    [i \in DOMAIN s |-> IF s[i] = "U+0141" THEN "L" ELSE IF s[i] = "U+0142" THEN "l" ELSE s[i]]
\* line 33: the characters that are no combining marks
DropCombining(s) == SelectSeq(s, LAMBDA c : c \notin Combining)
\* line 34: re.sub(r"[\s\.]", "", s)
DropSpaceAndDot(s) == SelectSeq(s, LAMBDA c : c \notin WhiteSpace \cup {"."})
\* line 35: s.upper()
UpperStr(s) == [i \in DOMAIN s |-> Upper(s[i])]

\* str.lower() for one character
Lower(c) ==
    IF \E i \in DOMAIN UpperSeq : UpperSeq[i] = c
    THEN LowerSeq[CHOOSE i \in DOMAIN UpperSeq : UpperSeq[i] = c]
    ELSE c

\* _normalize_key ending in .lower() instead of .upper()
_normalize_key_lower(raw) ==
    LET normalized    == ReplaceLStroke(Decompose(raw))
        without_marks == DropCombining(normalized)
        cleaned       == DropSpaceAndDot(without_marks)
    IN  [i \in DOMAIN cleaned |-> Lower(cleaned[i])]

\* _normalize_key: NFKD, L-stroke to L, combining marks dropped, whitespace
\* and dots removed, upper-cased.
_normalize_key(raw) ==
    LET normalized    == ReplaceLStroke(Decompose(raw))
        without_marks == DropCombining(normalized)
        cleaned       == DropSpaceAndDot(without_marks)
    IN  UpperStr(cleaned)

-----------------------------------------------------------------------------
(* The alias table *)

_RAW_BOOK_ALIASES == <<
    <<"GENESIS", <<<<"R","D","Z">>, <<"R","O","D","Z">>, <<"G","E","N">>>>>>,
    <<"EXODUS", <<<<"W","J">>, <<"W","Y","J">>, <<"E","X">>, <<"E","X","O","D","U","S">>>>>>,
    <<"LEVITICUS", <<<<"K","P","L">>, <<"L","E","V">>>>>>,
    <<"NUMBERS", <<<<"L","B">>, <<"L","I","C","Z","B">>, <<"N","U","M">>>>>>,
    <<"DEUTERONOMY", <<<<"P","W","T">>, <<"D","E","U","T">>>>>>,
    <<"JOSHUA", <<<<"J","O","Z">>, <<"J","O","S">>>>>>,
    <<"JUDGES", <<<<"S","D","Z">>, <<"S","E","D","Z">>, <<"J","D","G">>>>>>,
    <<"RUTH", <<<<"R","T">>, <<"R","U","T">>>>>>,
    <<"SAMUEL_1", <<<<"1","S","M">>, <<"1","S","A","M">>, <<"I","S","M">>>>>>,
    <<"SAMUEL_2", <<<<"2","S","M">>, <<"2","S","A","M">>, <<"I","I","S","M">>>>>>,
    <<"KINGS_1", <<<<"1","K","R","L">>, <<"1","K","R","O">>, <<"1","K","G","S">>>>>>,
    <<"KINGS_2", <<<<"2","K","R","L">>, <<"2","K","R","O">>, <<"2","K","G","S">>>>>>,
    <<"CHRONICLES_1", <<<<"1","K","R","N">>, <<"1","K","R","O","N">>>>>>,
    <<"CHRONICLES_2", <<<<"2","K","R","N">>, <<"2","K","R","O","N">>>>>>,
    <<"EZRA", <<<<"E","Z","D">>, <<"E","Z","R","A">>>>>>,
    <<"NEHEMIAH", <<<<"N","E">>, <<"N","E","H">>>>>>,
    <<"ESTHER", <<<<"E","S","T">>>>>>,
    <<"JOB", <<<<"H","I">>, <<"J","O","B">>>>>>,
    <<"PSALMS", <<<<"P","S">>, <<"P","S","L","M">>>>>>,
    <<"PROVERBS", <<<<"P","R","Z">>, <<"P","R","Z","Y","P">>, <<"P","R">>>>>>,
    <<"ECCLESIASTES", <<<<"K","O","H">>, <<"K","O","H","E","L","E","T">>>>>>,
    <<"SONG_OF_SONGS", <<<<"P","N","P">>, <<"P","I","E","S","N">>, <<"P","N","S">>>>>>,
    <<"ISAIAH", <<<<"I","Z">>, <<"I","S","A">>>>>>,
    <<"JEREMIAH", <<<<"J","R">>, <<"J","E","R">>>>>>,
    <<"LAMENTATIONS", <<<<"L","M">>, <<"L","A","M">>>>>>,
    <<"EZEKIEL", <<<<"E","Z">>, <<"E","Z","E">>>>>>,
    <<"DANIEL", <<<<"D","N">>, <<"D","A","N">>>>>>,
    <<"HOSEA", <<<<"O","Z">>, <<"H","O","S">>>>>>,
    <<"JOEL", <<<<"J","L">>, <<"J","O","E","L">>>>>>,
    <<"AMOS", <<<<"A","M">>>>>>,
    <<"OBADIAH", <<<<"A","B","D">>, <<"O","B">>>>>>,
    <<"JONAH", <<<<"J","O","N">>>>>>,
    <<"MICAH", <<<<"M","I">>, <<"M","I","C">>>>>>,
    <<"NAHUM", <<<<"N","A">>>>>>,
    <<"HABAKKUK", <<<<"H","A">>, <<"H","A","B">>>>>>,
    <<"ZEPHANIAH", <<<<"S","O">>, <<"S","O","P">>>>>>,
    <<"HAGGAI", <<<<"A","G">>, <<"H","A","G">>>>>>,
    <<"ZECHARIAH", <<<<"Z","A">>, <<"Z","A","C","H">>>>>>,
    <<"MALACHI", <<<<"M","L">>, <<"M","A","L">>>>>>,
    <<"MATTHEW", <<<<"M","T">>, <<"M","A","T">>>>>>,
    <<"MARK", <<<<"M","K">>, <<"M","R","K">>>>>>,
    <<"LUKE", <<<<"L","K">>, <<"L","U","K">>>>>>,
    <<"JOHN", <<<<"J">>, <<"J","A","N">>, <<"J","N">>>>>>,
    <<"ACTS", <<<<"D","Z">>, <<"D","A","P">>, <<"D","Z","A","P">>>>>>,
    <<"ROMANS", <<<<"R","Z">>, <<"R","O","M">>>>>>,
    <<"CORINTHIANS_1", <<<<"1","K","O","R">>, <<"I","K","O","R">>>>>>,
    <<"CORINTHIANS_2", <<<<"2","K","O","R">>, <<"I","I","K","O","R">>>>>>,
    <<"GALATIANS", <<<<"G","A">>, <<"G","A","L">>>>>>,
    <<"EPHESIANS", <<<<"E","F">>, <<"E","P","H">>>>>>,
    <<"PHILIPPIANS", <<<<"F","L","P">>, <<"P","H","P">>>>>>,
    <<"COLOSSIANS", <<<<"K","O","L">>, <<"C","O","L">>>>>>,
    <<"THESSALONIANS_1", <<<<"1","T","E","S">>, <<"1","T","E","S","A","L">>>>>>,
    <<"THESSALONIANS_2", <<<<"2","T","E","S">>, <<"2","T","E","S","A","L">>>>>>,
    <<"TIMOTHY_1", <<<<"1","T","M">>, <<"1","T","I","M">>>>>>,
    <<"TIMOTHY_2", <<<<"2","T","M">>, <<"2","T","I","M">>>>>>,
    <<"TITUS", <<<<"T","T">>, <<"T","I","T">>>>>>,
    <<"PHILEMON", <<<<"F","L","M">>, <<"P","H","M">>>>>>,
    <<"HEBREWS", <<<<"H","B","R">>, <<"H","E","B">>>>>>,
    <<"JAMES", <<<<"J","K">>, <<"J","A","K">>>>>>,
    <<"PETER_1", <<<<"1","P">>, <<"1","P","I">>, <<"1","P","T","R">>>>>>,
    <<"PETER_2", <<<<"2","P">>, <<"2","P","I">>, <<"2","P","T","R">>>>>>,
    <<"JOHN_1", <<<<"1","J">>, <<"1","J","A","N">>, <<"1","J","N">>>>>>,
    <<"JOHN_2", <<<<"2","J">>, <<"2","J","A","N">>, <<"2","J","N">>>>>>,
    <<"JOHN_3", <<<<"3","J">>, <<"3","J","A","N">>, <<"3","J","N">>>>>>,
    <<"JUDE", <<<<"J","U","D">>>>>>,
    <<"REVELATION", <<<<"A","P">>, <<"A","P","K">>, <<"O","B","J">>, <<"O","B","J","A","W">>>>>>,
    <<"TOBIT", <<<<"T","B">>, <<"T","O","B">>>>>>,
    <<"WISDOM_OF_SOLOMON", <<<<"M","D","R">>, <<"W","I","S">>>>>>,
    <<"ECCLESIASTICUS", <<<<"S","Y","R">>, <<"S","I","R">>>>>>,
    <<"MACCABEES_1", <<<<"1","M","C","H">>, <<"1","M","A","C">>>>>>,
    <<"MACCABEES_2", <<<<"2","M","C","H">>, <<"2","M","A","C">>>>>>
>>

RECURSIVE Insertions(_)
\* The (key, book) pairs in the order the import loop visits them.
Insertions(raw) ==
    IF raw = <<>> THEN <<>>
    ELSE LET book == Head(raw)[1]
             keys == Head(raw)[2]
         IN  [i \in 1..Len(keys) |-> [key |-> keys[i], book |-> book]] \o Insertions(Tail(raw))

AliasInsertions == Insertions(_RAW_BOOK_ALIASES)

\* d[k] = v of a Python dict (a later assignment to the same key wins)
DictSet(d, k, v) == (k :> v) @@ d
\* d.get(k)
DictGet(d, k) == IF k \in DOMAIN d THEN d[k] ELSE None

EmptyDict == [x \in {} |-> None]

Max(S) == CHOOSE x \in S : \A y \in S : y <= x

\* _BOOK_ALIASES after the first n insertions: each key inserted so far maps
\* to the book of its last insertion
AliasesAfter(n) ==
    [k \in {AliasInsertions[i].key : i \in 1..n} |->
        AliasInsertions[Max({i \in 1..n : AliasInsertions[i].key = k})].book]

\* the module global once utils.py is imported
_BOOK_ALIASES == AliasesAfter(Len(AliasInsertions))

\* _book_from_match falling back to a default book for an unknown key
_book_from_match_default(raw_book) ==
    IF _normalize_key(raw_book) \in DOMAIN table THEN table[_normalize_key(raw_book)] ELSE "GENESIS"

_book_from_match(raw_book) == DictGet(table, _normalize_key(raw_book))

-----------------------------------------------------------------------------
(* Python str and int helpers *)

Min(S) == CHOOSE x \in S : \A y \in S : x <= y

\* s[i:j] with 1-based i and exclusive j
Slice(s, i, j) == IF j <= i THEN <<>> ELSE SubSeq(s, i, j - 1)

RECURSIVE RunEnd(_, _, _)
\* index just after the longest run of characters of C that starts at i
RunEnd(s, i, C) ==
    IF i > Len(s) THEN i
    ELSE IF s[i] \notin C THEN i
    ELSE RunEnd(s, i + 1, C)

\* the value int() gives a decimal digit of any script
DigitVal(c) == (CHOOSE i \in 1..10 : \E r \in DOMAIN DigitRows : DigitRows[r][i] = c) - 1

RECURSIVE StrToInt(_)
\* int(s) for a non-empty str of decimal digits
StrToInt(s) ==
    IF s = <<>> THEN 0 ELSE 10 * StrToInt(SubSeq(s, 1, Len(s) - 1)) + DigitVal(s[Len(s)])

RECURSIVE IntToStr(_)
\* str(n) for n >= 0
IntToStr(n) ==
    IF n < 10 THEN <<DigitSeq[n + 1]>> ELSE IntToStr(n \div 10) \o <<DigitSeq[(n % 10) + 1]>>

\* s.replace(a, b) for a single character a
ReplaceChar(s, a, b) == [i \in 1..Len(s) |-> IF s[i] = a THEN b ELSE s[i]]

\* s.replace(a, "") for a single character a
RemoveChar(s, a) == SelectSeq(s, LAMBDA c : c # a)

RECURSIVE ReplaceDotDot(_)
\* s.replace("..", ","): leftmost, non-overlapping
ReplaceDotDot(s) ==
    IF Len(s) < 2 THEN s
    ELSE IF s[1] = "." /\ s[2] = "." THEN <<",">> \o ReplaceDotDot(SubSeq(s, 3, Len(s)))
    ELSE <<s[1]>> \o ReplaceDotDot(Tail(s))

\* s.split(c, 1)[0]
BeforeFirst(s, c) ==
    LET hits == {i \in 1..Len(s) : s[i] = c}
    IN  IF hits = {} THEN s ELSE SubSeq(s, 1, Min(hits) - 1)

\* s.lstrip(chars), s.rstrip(chars), s.strip(chars) for a set of characters
LStrip(s, C) == SubSeq(s, RunEnd(s, 1, C), Len(s))
RStrip(s, C) ==
    LET keep == {i \in 1..Len(s) : s[i] \notin C}
    IN  IF keep = {} THEN <<>> ELSE SubSeq(s, 1, CHOOSE i \in keep : \A j \in keep : j <= i)
Strip(s, C) == RStrip(LStrip(s, C), C)

StartsWith(s, c) == s # <<>> /\ s[1] = c

-----------------------------------------------------------------------------
(* _REFERENCE_PATTERN and finditer *)

\* [A-Za-zĄĆĘŁŃÓŚŹŻa-ząćęłńóśźż\.]
BookChars == AsciiLetters \cup PolishUpper \cup PolishLower \cup {"."}
\* [\d\-–—,.\s]   (U+2013 en dash, U+2014 em dash)
VerseChars == Digits \cup {"-", "U+2013", "U+2014", ",", "."} \cup WhiteSpace

\* \s+ between the book token and the chapter: the index after the run of
\* whitespace that starts at c, or 0 when the pattern cannot go on from c.
BookChapterGap(s, c) ==
    LET d == RunEnd(s, c, WhiteSpace)
    IN  IF d > c THEN d ELSE 0

\* _REFERENCE_PATTERN.match(s, p): the match that starts at index p, if any.
\* Every quantifier of the pattern is followed by a character class disjoint
\* from its own, so the greedy match is the only one: an optional [1-3] and
\* whitespace, the longest run of book characters, the whitespace gap, up to
\* three digits, and the verses when [,:] and a verse character follow.
MatchAt(s, p) ==
    IF p > Len(s) THEN Absent
    ELSE
    LET b == IF s[p] \in {"1", "2", "3"} THEN RunEnd(s, p + 1, WhiteSpace) ELSE p
        c == RunEnd(s, b, BookChars)
        d == IF c > b THEN BookChapterGap(s, c) ELSE 0
        e == IF d = 0 THEN 0 ELSE Min({RunEnd(s, d, Digits), d + 3})
        f == IF e > d /\ e <= Len(s) /\ s[e] \in {",", ":"}
             THEN RunEnd(s, e + 1, VerseChars) ELSE 0
    IN  IF d = 0 \/ e = d THEN Absent
        ELSE IF f > e + 1
        THEN Some([start |-> p, end |-> f, book |-> Slice(s, p, c),
                   chapter |-> Slice(s, d, e), verses |-> Some(Slice(s, e + 1, f))])
        ELSE Some([start |-> p, end |-> e, book |-> Slice(s, p, c),
                   chapter |-> Slice(s, d, e), verses |-> Absent])

RECURSIVE NextMatch(_, _)
\* The next match finditer yields when it resumes at index p, if any: the
\* match at the leftmost index from p on at which the pattern matches.
NextMatch(s, p) ==
    IF p > Len(s) THEN Absent
    ELSE LET m == MatchAt(s, p)
         IN  IF m # Absent THEN m ELSE NextMatch(s, p + 1)

-----------------------------------------------------------------------------
(* The reference service (pythonbible), by its interface *)

DEFAULT_VERSION == "KING_JAMES"

\* Number of chapters of each book and of verses of each chapter in the
\* modelled scripture data.
BibleChapters == 28
BibleVerses == 4

BookTitles == <<
    <<"GENESIS", "Genesis">>,
    <<"EXODUS", "Exodus">>,
    <<"LEVITICUS", "Leviticus">>,
    <<"NUMBERS", "Numbers">>,
    <<"DEUTERONOMY", "Deuteronomy">>,
    <<"JOSHUA", "Joshua">>,
    <<"JUDGES", "Judges">>,
    <<"RUTH", "Ruth">>,
    <<"SAMUEL_1", "1 Samuel">>,
    <<"SAMUEL_2", "2 Samuel">>,
    <<"KINGS_1", "1 Kings">>,
    <<"KINGS_2", "2 Kings">>,
    <<"CHRONICLES_1", "1 Chronicles">>,
    <<"CHRONICLES_2", "2 Chronicles">>,
    <<"EZRA", "Ezra">>,
    <<"NEHEMIAH", "Nehemiah">>,
    <<"ESTHER", "Esther">>,
    <<"JOB", "Job">>,
    <<"PSALMS", "Psalms">>,
    <<"PROVERBS", "Proverbs">>,
    <<"ECCLESIASTES", "Ecclesiastes">>,
    <<"SONG_OF_SONGS", "Song of Songs">>,
    <<"ISAIAH", "Isaiah">>,
    <<"JEREMIAH", "Jeremiah">>,
    <<"LAMENTATIONS", "Lamentations">>,
    <<"EZEKIEL", "Ezekiel">>,
    <<"DANIEL", "Daniel">>,
    <<"HOSEA", "Hosea">>,
    <<"JOEL", "Joel">>,
    <<"AMOS", "Amos">>,
    <<"OBADIAH", "Obadiah">>,
    <<"JONAH", "Jonah">>,
    <<"MICAH", "Micah">>,
    <<"NAHUM", "Nahum">>,
    <<"HABAKKUK", "Habakkuk">>,
    <<"ZEPHANIAH", "Zephaniah">>,
    <<"HAGGAI", "Haggai">>,
    <<"ZECHARIAH", "Zechariah">>,
    <<"MALACHI", "Malachi">>,
    <<"MATTHEW", "Matthew">>,
    <<"MARK", "Mark">>,
    <<"LUKE", "Luke">>,
    <<"JOHN", "John">>,
    <<"ACTS", "Acts">>,
    <<"ROMANS", "Romans">>,
    <<"CORINTHIANS_1", "1 Corinthians">>,
    <<"CORINTHIANS_2", "2 Corinthians">>,
    <<"GALATIANS", "Galatians">>,
    <<"EPHESIANS", "Ephesians">>,
    <<"PHILIPPIANS", "Philippians">>,
    <<"COLOSSIANS", "Colossians">>,
    <<"THESSALONIANS_1", "1 Thessalonians">>,
    <<"THESSALONIANS_2", "2 Thessalonians">>,
    <<"TIMOTHY_1", "1 Timothy">>,
    <<"TIMOTHY_2", "2 Timothy">>,
    <<"TITUS", "Titus">>,
    <<"PHILEMON", "Philemon">>,
    <<"HEBREWS", "Hebrews">>,
    <<"JAMES", "James">>,
    <<"PETER_1", "1 Peter">>,
    <<"PETER_2", "2 Peter">>,
    <<"JOHN_1", "1 John">>,
    <<"JOHN_2", "2 John">>,
    <<"JOHN_3", "3 John">>,
    <<"JUDE", "Jude">>,
    <<"REVELATION", "Revelation">>,
    <<"TOBIT", "Tobit">>,
    <<"WISDOM_OF_SOLOMON", "Wisdom of Solomon">>,
    <<"ECCLESIASTICUS", "Ecclesiasticus">>,
    <<"MACCABEES_1", "1 Maccabees">>,
    <<"MACCABEES_2", "2 Maccabees">>
>>

BookNumber(book) == CHOOSE i \in DOMAIN BookTitles : BookTitles[i][1] = book

\* pb.get_book_titles(book, version).short_title: one symbol standing for
\* the characters of the title.
ShortTitle(book, version) == BookTitles[BookNumber(book)][2]

IsTitle(t) == \E i \in DOMAIN BookTitles : BookTitles[i][2] = t
BookOfTitle(t) == BookTitles[CHOOSE i \in DOMAIN BookTitles : BookTitles[i][2] = t][1]

NormalizedReference(book, sc, sv, ec, ev) ==
    [book |-> book, start_chapter |-> sc, start_verse |-> sv,
     end_chapter |-> ec, end_verse |-> ev, end_book |-> None]

RECURSIVE SplitOn(_, _)
\* s.split(c)
SplitOn(s, c) ==
    LET hits == {i \in 1..Len(s) : s[i] = c}
    IN  IF hits = {} THEN <<s>>
        ELSE <<SubSeq(s, 1, Min(hits) - 1)>> \o SplitOn(SubSeq(s, Min(hits) + 1, Len(s)), c)

\* the parser reads numbers written in the digits 0-9
IsNumber(s) == s # <<>> /\ \A i \in 1..Len(s) : s[i] \in AsciiDigits

\* One comma-separated group of a verse list: "a" or "a-b" with 1 <= a <= b.
GroupOk(g) ==
    LET parts == SplitOn(g, "-")
    IN  /\ Len(parts) \in {1, 2}
        /\ \A i \in 1..Len(parts) : IsNumber(parts[i])
        /\ StrToInt(parts[1]) >= 1
        /\ StrToInt(parts[1]) <= StrToInt(parts[Len(parts)])

GroupReference(book, chapter, g) ==
    LET parts == SplitOn(g, "-")
    IN  NormalizedReference(book, chapter, StrToInt(parts[1]), chapter, StrToInt(parts[Len(parts)]))

\* pb.get_references(reference_string) for a string "<title> <chapter>" or
\* "<title> <chapter>:<group>,<group>...": one reference per group; anything
\* else is not a valid reference and is signalled as InvalidBibleParserError.
\* A reference to a whole chapter runs from verse 1 to the chapter's last.
pb_get_references(q) ==
    LET invalid == [signal |-> "InvalidBibleParserError", references |-> <<>>]
        e       == RunEnd(q, 3, AsciiDigits)
        chapter == StrToInt(Slice(q, 3, e))
        book    == BookOfTitle(q[1])
        groups  == SplitOn(Slice(q, e + 1, Len(q) + 1), ",")
    IN  IF Len(q) < 3 \/ ~IsTitle(q[1]) \/ q[2] # " " \/ e = 3 THEN invalid
        ELSE IF e > Len(q)
        THEN [signal |-> None,
              references |-> <<NormalizedReference(book, chapter, 1, chapter, BibleVerses)>>]
        ELSE IF q[e] # ":" \/ \E i \in 1..Len(groups) : ~GroupOk(groups[i]) THEN invalid
        ELSE [signal |-> None,
              references |-> [i \in 1..Len(groups) |-> GroupReference(book, chapter, groups[i])]]

\* pb.convert_references_to_verse_ids([reference]): the identifiers
\* (book * 1000000 + chapter * 1000 + verse) of the verses of the reference
\* that exist in the scripture data, in order.
pb_convert_references_to_verse_ids(reference) ==
    LET first == reference.start_verse
        last  == Min({reference.end_verse, BibleVerses})
    IN  IF reference.start_chapter > BibleChapters \/ last < first THEN <<>>
        ELSE [i \in 1..(last - first + 1) |->
                BookNumber(reference.book) * 1000000 + reference.start_chapter * 1000 + first + i - 1]

RECURSIVE pb_format_scripture_text(_, _)
\* pb.format_scripture_text(verse_ids, format_type="plain_text",
\* include_verse_numbers=True, version=version): per verse its number, a
\* space, its words (one symbol) and a line break.
pb_format_scripture_text(verse_ids, version) ==
    IF verse_ids = <<>> THEN <<>>
    ELSE IntToStr(Head(verse_ids) % 1000) \o <<".", " ", ToString(Head(verse_ids)), "\n">>
         \o pb_format_scripture_text(Tail(verse_ids), version)

\* pb.format_single_reference(reference, version=version)
pb_format_single_reference(reference, version) ==
    <<ShortTitle(reference.book, version), " ">> \o IntToStr(reference.start_chapter)
    \o <<":">> \o IntToStr(reference.start_verse)
    \o (IF reference.end_verse = reference.start_verse THEN <<>>
        ELSE <<"-">> \o IntToStr(reference.end_verse))

-----------------------------------------------------------------------------
(* _build_reference *)

\* the sanitizer without the replacement of the en dash and the em dash
SanitizeVerses_nodash(verses) ==
    LET primary == BeforeFirst(verses, ";")
        nospace == RemoveChar(primary, " ")
        commas  == ReplaceChar(ReplaceDotDot(nospace), ".", ",")
    IN  Strip(LStrip(commas, {":"}), {","})

\* lines 147-156: the verse-spec as it is appended to the query string
SanitizeVerses(verses) ==
    LET primary == BeforeFirst(verses, ";")
        nospace == RemoveChar(primary, " ")
        dashes  == ReplaceChar(ReplaceChar(nospace, "U+2013", "-"), "U+2014", "-")
        commas  == ReplaceChar(ReplaceDotDot(dashes), ".", ",")
    IN  Strip(LStrip(commas, {":"}), {","})

\* lines 145-162: reference_string
ReferenceString(book, chapter, verses) ==
    LET base_title       == ShortTitle(book, DEFAULT_VERSION)
        sanitized_verses == IF verses = Absent \/ verses[1] = <<>> THEN <<>>
                            ELSE SanitizeVerses(verses[1])
        head             == <<base_title, " ">> \o IntToStr(chapter)
    IN  IF sanitized_verses = <<>> THEN head
        ELSE IF ~StartsWith(sanitized_verses, ":") /\ ~StartsWith(sanitized_verses, ",")
        THEN head \o <<":">> \o sanitized_verses
        ELSE head \o sanitized_verses

\* _build_reference without the except clause: the parser's signal leaves the call
_build_reference_nocatch(book, chapter, verses) ==
    LET reference_string == ReferenceString(book, chapter, verses)
        parsed           == pb_get_references(reference_string)
    IN  [raised |-> parsed.signal, value |-> parsed.references,
         query |-> reference_string, signal |-> parsed.signal]

\* _build_reference(book, chapter, verses): `raised` is the exception that
\* leaves the call (None when it returns) and `value` what it returns.
_build_reference(book, chapter, verses) ==
    LET reference_string == ReferenceString(book, chapter, verses)
        parsed           == pb_get_references(reference_string)
    IN  IF parsed.signal = "InvalidBibleParserError"
        THEN [raised |-> None, value |-> <<>>, query |-> reference_string, signal |-> parsed.signal]
        ELSE [raised |-> parsed.signal, value |-> parsed.references,
              query |-> reference_string, signal |-> parsed.signal]

-----------------------------------------------------------------------------
(* find_references *)

\* the key without the end verse
Key_noend(reference) ==
    <<reference.book, reference.start_chapter, reference.start_verse, reference.end_chapter>>

\* lines 188-194: the key of the set `seen`
Key(reference) ==
    <<reference.book, reference.start_chapter, reference.start_verse,
      reference.end_chapter, reference.end_verse>>

Keys(refs) == {Key(refs[i]) : i \in 1..Len(refs)}

\* line 175
NormalizeText(s) == ReplaceChar(s, "\n", " ")

RECURSIVE AddReferences(_, _)
\* lines 187-198: the inner loop over the references of one match
AddReferences(refs, new) ==
    IF new = <<>> THEN refs
    ELSE AddReferences(IF Key(Head(new)) \in Keys(refs) THEN refs ELSE Append(refs, Head(new)),
                       Tail(new))

RECURSIVE FindFrom(_, _, _)
\* lines 179-200: the loop over the matches from offset p on
FindFrom(s, p, refs) ==
    LET m == NextMatch(s, p)
    IN  IF m = Absent THEN [raised |-> None, value |-> refs]
        ELSE LET book == _book_from_match(m[1].book)
                 r    == _build_reference(book, StrToInt(m[1].chapter), m[1].verses)
             IN  IF book = None THEN FindFrom(s, m[1].end, refs)
                 ELSE IF r.raised # None THEN [raised |-> r.raised, value |-> <<>>]
                 ELSE FindFrom(s, m[1].end, AddReferences(refs, r.value))

\* find_references(text) as a function of the text
find_references(s) == FindFrom(NormalizeText(s), 1, <<>>)

-----------------------------------------------------------------------------
(* resolve_references *)

ReferenceResult(label, body) == [label |-> label, text |-> body]

\* lines 209-211: the reference gets no result
HasNoVerses(reference) == pb_convert_references_to_verse_ids(reference) = <<>>

\* the result with the passage not trimmed
ResolveOne_nostrip(reference) ==
    LET verse_ids == pb_convert_references_to_verse_ids(reference)
        passage   == pb_format_scripture_text(verse_ids, DEFAULT_VERSION)
        label     == pb_format_single_reference(reference, DEFAULT_VERSION)
    IN  ReferenceResult(label, passage)

\* lines 212-219: the result appended for a reference
ResolveOne(reference) ==
    LET verse_ids == pb_convert_references_to_verse_ids(reference)
        passage   == Strip(pb_format_scripture_text(verse_ids, DEFAULT_VERSION), WhiteSpace)
        label     == pb_format_single_reference(reference, DEFAULT_VERSION)
    IN  ReferenceResult(label, passage)

-----------------------------------------------------------------------------
(* The inputs *)

MaxCitations == 2
MaxRefs == 3

Lk   == <<"U+0141", "k">>
Kor1 == <<"1", " ", "K", "o", "r">>
Xy   == <<"X", "y">>

KnownTokens == {Lk, Kor1}
Range13     == <<",", "1", "-", "3">>
\* ":1<en dash>3"
Range13Dash == <<":", "1", "U+2013", "3">>
\* the verse parts that give the range 1-3
RangeParts  == {Range13, Range13Dash}
\* the ranges, ",1<tab>-3", ",3-", ",2,4" and no verses
VerseParts  == RangeParts \cup {<<",", "1", "\t", "-", "3">>, <<",", "3", "-">>,
                                <<",", "2", ",", "4">>, <<>>}
\* "; " and a line break
Joiners     == {<<";", " ">>, <<"\n">>}

\* A citation as printed: the book token, what separates it from the chapter,
\* the chapter digits, and the delimiter with the verse-spec.  Citations of
\* Luke with every verse part, with the token run onto the chapter, and with
\* a vertical tab before a chapter in an Arabic-Indic digit (U+0665, five)
\* and the verse U+0662 (two); of 1 Corinthians with a verse range and with
\* a two-digit chapter; and citations with a token no book is known by.
Citations ==
    [token : {Lk}, sep : {<<" ">>}, chapter : {<<"5">>}, verses : VerseParts]
    \cup [token : {Lk}, sep : {<<>>}, chapter : {<<"5">>}, verses : {Range13}]
    \cup [token : {Lk}, sep : {<<"U+000B">>}, chapter : {<<"U+0665">>},
          verses : {Range13, <<",", "U+0662">>}]
    \cup [token : {Kor1}, sep : {<<" ">>}, chapter : {<<"5">>}, verses : RangeParts]
    \cup [token : {Kor1}, sep : {<<" ">>}, chapter : {<<"1", "3">>}, verses : {Range13}]
    \cup [token : {Xy}, sep : {<<" ">>}, chapter : {<<"5">>}, verses : {Range13, <<>>}]

\* what is printed on a page: up to MaxCitations citations and what joins them
Pages ==
    UNION {[cits : [1..n -> Citations], join : Joiners] : n \in 0..MaxCitations}

CitationText(c) == c.token \o c.sep \o c.chapter \o c.verses

RECURSIVE JoinText(_, _)
JoinText(cits, join) ==
    IF Len(cits) = 0 THEN <<>>
    ELSE IF Len(cits) = 1 THEN CitationText(cits[1])
    ELSE CitationText(Head(cits)) \o join \o JoinText(Tail(cits), join)

\* the characters on the page, which the OCR engine reads
PageText(p) == JoinText(p.cits, p.join)

NoPage == [cits |-> <<>>, join |-> <<>>]

Engines == {"ok", "TesseractNotFoundError", "TesseractError"}

\* references a caller may hand to resolve_references
RefInputs ==
    {NormalizedReference("MATTHEW", ch, v[1], ch, v[2]) :
        ch \in {5, BibleChapters + 1}, v \in {<<1, 3>>, <<2, 2>>, <<BibleVerses + 1, BibleVerses + 2>>}}

RefSeqs == UNION {[1..n -> RefInputs] : n \in 0..MaxRefs}

-----------------------------------------------------------------------------
(* The state machine *)

\* the texts of the messages (their Polish letters written without marks)
TESSERACT_MISSING == "Nie odnaleziono silnika Tesseract. Zainstaluj go lokalnie i ustaw w PATH."
FORM_ERRORS       == "Popraw prosze bledy w formularzu."
NOTHING_FOUND     == "Nie udalo sie znalezc sigli w przeslanym materiale."

Init ==
    /\ table = EmptyDict
    /\ imp = 0
    /\ pc = "import"
    /\ entry = None
    /\ page = NoPage
    /\ text = Absent
    /\ pos = 1
    /\ pending = <<>>
    /\ references = <<>>
    /\ seen = {}
    /\ built = <<>>
    /\ skipped = <<>>
    /\ todo = <<>>
    /\ input = <<>>
    /\ results = <<>>
    /\ calls = <<>>
    /\ msgs = <<>>
    /\ response = None

\* utils.py lines 113-115: one assignment _BOOK_ALIASES[key] = book
ImportStep ==
    /\ pc = "import"
    /\ imp < Len(AliasInsertions)
    /\ table' = DictSet(table, AliasInsertions[imp + 1].key, AliasInsertions[imp + 1].book)
    /\ imp' = imp + 1
    /\ UNCHANGED <<pc, entry, page, text, pos, pending, references, seen, built,
                   skipped, todo, input, results, calls, msgs, response>>

\* the import loop is over: the process serves requests
ImportDone ==
    /\ pc = "import"
    /\ imp = Len(AliasInsertions)
    /\ pc' = "ready"
    /\ UNCHANGED <<table, imp, entry, page, text, pos, pending, references, seen, built,
                   skipped, todo, input, results, calls, msgs, response>>

\* views.py lines 16-20: form_valid is entered with an uploaded page and
\* calls extract_text
FormValid ==
    /\ pc = "ready"
    /\ \E p \in Pages : page' = p
    /\ entry' = "view"
    /\ pc' = "extract"
    /\ calls' = Append(calls, "extract_text")
    /\ UNCHANGED <<table, imp, text, pos, pending, references, seen, built,
                   skipped, todo, input, results, msgs, response>>

\* views.py lines 42-44: form_invalid is called for an upload that failed
\* validation; it adds its message and shows the form again
FormInvalid ==
    /\ pc = "ready"
    /\ entry' = "form_invalid"
    /\ msgs' = Append(msgs, FORM_ERRORS)
    /\ response' = "form_invalid"
    /\ pc' = "done"
    /\ UNCHANGED <<table, imp, page, text, pos, pending, references, seen, built,
                   skipped, todo, input, results, calls>>

\* form_valid without the return in its except clause: after the error
\* message the view goes on with an empty text
ExtractText_continue ==
    /\ pc = "extract"
    /\ \E engine \in Engines :
        IF engine = "ok"
        THEN /\ text' = Some(PageText(page))
             /\ pc' = "scan"
             /\ calls' = Append(calls, "find_references")
             /\ UNCHANGED <<msgs, response>>
        ELSE IF engine = "TesseractNotFoundError"
        THEN /\ msgs' = msgs \o <<TESSERACT_MISSING, FORM_ERRORS>>
             /\ response' = "form_invalid"
             /\ text' = Some(<<>>)
             /\ pc' = "scan"
             /\ calls' = Append(calls, "find_references")
        ELSE /\ response' = engine
             /\ pc' = "raised"
             /\ UNCHANGED <<text, calls, msgs>>
    /\ UNCHANGED <<table, imp, entry, page, pos, pending, references, seen, built,
                   skipped, todo, input, results>>

\* utils.py lines 121-135 and views.py lines 19-25: extract_text returns the
\* text, or the engine is missing (SiglaExtractionError, caught by the
\* view, which adds the error's message and returns form_invalid, lines
\* 42-44), or the engine fails otherwise (the exception leaves the view)
ExtractText ==
    /\ pc = "extract"
    /\ \E engine \in Engines :
        IF engine = "ok"
        THEN /\ text' = Some(PageText(page))
             /\ pc' = "scan"
             /\ calls' = Append(calls, "find_references")
             /\ UNCHANGED <<msgs, response>>
        ELSE IF engine = "TesseractNotFoundError"
        THEN /\ msgs' = msgs \o <<TESSERACT_MISSING, FORM_ERRORS>>
             /\ response' = "form_invalid"
             /\ pc' = "done"
             /\ UNCHANGED <<text, calls>>
        ELSE /\ response' = engine
             /\ pc' = "raised"
             /\ UNCHANGED <<text, calls, msgs>>
    /\ UNCHANGED <<table, imp, entry, page, pos, pending, references, seen, built,
                   skipped, todo, input, results>>

\* utils.py lines 179-182: the next match has an unknown book token
ScanUnknownBook ==
    /\ pc = "scan"
    /\ pending = <<>>
    /\ LET m == NextMatch(NormalizeText(text[1]), pos)
       IN  /\ m # Absent
           /\ _book_from_match(m[1].book) = None
           /\ skipped' = Append(skipped, m[1].book)
           /\ pos' = m[1].end
    /\ UNCHANGED <<table, imp, pc, entry, page, text, pending, references, seen, built,
                   todo, input, results, calls, msgs, response>>

\* utils.py lines 179-187: the next match has a known book token and
\* _build_reference is called for it
ScanKnownBook ==
    /\ pc = "scan"
    /\ pending = <<>>
    /\ LET m == NextMatch(NormalizeText(text[1]), pos)
       IN  /\ m # Absent
           /\ _book_from_match(m[1].book) # None
           /\ LET book    == _book_from_match(m[1].book)
                  chapter == StrToInt(m[1].chapter)
                  r       == _build_reference(book, chapter, m[1].verses)
              IN  /\ built' = Append(built, [raw |-> m[1].book, book |-> book, chapter |-> chapter,
                                             verses |-> m[1].verses, query |-> r.query,
                                             signal |-> r.signal, before |-> references])
                  /\ IF r.raised # None
                     THEN /\ pc' = "raised"
                          /\ response' = r.raised
                          /\ UNCHANGED <<pending, pos>>
                     ELSE /\ pending' = r.value
                          /\ pos' = m[1].end
                          /\ UNCHANGED <<pc, response>>
    /\ UNCHANGED <<table, imp, entry, page, text, references, seen, skipped,
                   todo, input, results, calls, msgs>>

\* utils.py lines 187-198: one reference of the current match is looked at
DedupStep ==
    /\ pc = "scan"
    /\ pending # <<>>
    /\ LET reference == Head(pending)
           key       == Key(reference)
       IN  IF key \in seen
           THEN UNCHANGED <<seen, references>>
           ELSE /\ seen' = seen \cup {key}
                /\ references' = Append(references, reference)
    /\ pending' = Tail(pending)
    /\ UNCHANGED <<table, imp, pc, entry, page, text, pos, built, skipped,
                   todo, input, results, calls, msgs, response>>

\* utils.py line 200 and views.py line 26: find_references returns and the
\* view calls resolve_references
ScanReturn ==
    /\ pc = "scan"
    /\ pending = <<>>
    /\ NextMatch(NormalizeText(text[1]), pos) = Absent
    /\ pc' = "resolve"
    /\ input' = references
    /\ todo' = references
    /\ calls' = Append(calls, "resolve_references")
    /\ UNCHANGED <<table, imp, entry, page, text, pos, pending, references, seen, built,
                   skipped, results, msgs, response>>

\* tests.py lines 30-33: resolve_references is called on its own
CallResolve ==
    /\ pc = "ready"
    /\ \E refs \in RefSeqs : input' = refs /\ todo' = refs
    /\ entry' = "resolve"
    /\ pc' = "resolve"
    /\ calls' = Append(calls, "resolve_references")
    /\ UNCHANGED <<table, imp, page, text, pos, pending, references, seen, built,
                   skipped, results, msgs, response>>

\* utils.py lines 208-219: one iteration of the loop of resolve_references
ResolveStep ==
    /\ pc = "resolve"
    /\ todo # <<>>
    /\ results' = IF HasNoVerses(Head(todo)) THEN results
                  ELSE Append(results, ResolveOne(Head(todo)))
    /\ todo' = Tail(todo)
    /\ UNCHANGED <<table, imp, pc, entry, page, text, pos, pending, references, seen, built,
                   skipped, input, calls, msgs, response>>

\* utils.py line 221: resolve_references returns
ResolveReturn ==
    /\ pc = "resolve"
    /\ todo = <<>>
    /\ pc' = IF entry = "view" THEN "render" ELSE "done"
    /\ UNCHANGED <<table, imp, entry, page, text, pos, pending, references, seen, built,
                   skipped, todo, input, results, calls, msgs, response>>

\* views.py lines 28-40: the warning when nothing was found, and the page
Render ==
    /\ pc = "render"
    /\ msgs' = IF results = <<>> THEN Append(msgs, NOTHING_FOUND) ELSE msgs
    /\ response' = "render_to_response"
    /\ pc' = "done"
    /\ UNCHANGED <<table, imp, entry, page, text, pos, pending, references, seen, built,
                   skipped, todo, input, results, calls>>

Next ==
    \/ ImportStep
    \/ ImportDone
    \/ FormValid
    \/ FormInvalid
    \/ ExtractText
    \/ ScanUnknownBook
    \/ ScanKnownBook
    \/ DedupStep
    \/ ScanReturn
    \/ CallResolve
    \/ ResolveStep
    \/ ResolveReturn
    \/ Render

Spec == Init /\ [][Next]_vars

-----------------------------------------------------------------------------
(* Vocabulary of the properties *)

Called(f) == \E i \in DOMAIN calls : calls[i] = f

\* find_references has returned to the view
ScanReturned == entry = "view" /\ Called("resolve_references")

\* resolve_references has returned
ResolveReturned == pc \in {"render", "done"} /\ Called("resolve_references")

IsPrefix(a, b) == Len(a) <= Len(b) /\ SubSeq(b, 1, Len(a)) = a

\* the five structural fields of a reference
FiveFields(r) == <<r.book, r.start_chapter, r.start_verse, r.end_chapter, r.end_verse>>

\* the book a printed token cites
CitedBook(token) ==
    IF token = Lk THEN "LUKE" ELSE IF token = Kor1 THEN "CORINTHIANS_1" ELSE None

\* the reference a citation of a known book with the range 1-3 stands for
CitedReference(c) ==
    [book |-> CitedBook(c.token),
     start_chapter |-> StrToInt(c.chapter), start_verse |-> 1,
     end_chapter |-> StrToInt(c.chapter), end_verse |-> 3, end_book |-> None]

RECURSIVE AllMatches(_, _)
\* every match finditer yields from offset p on
AllMatches(s, p) ==
    LET m == NextMatch(s, p)
    IN  IF m = Absent THEN <<>> ELSE <<m[1]>> \o AllMatches(s, m[1].end)

KnownKey(raw) == _normalize_key(raw) \in DOMAIN table

\* The loop of find_references, step by step, computes find_references.
ScanAgrees ==
    ScanReturned =>
        /\ find_references(text[1]).raised = None
        /\ find_references(text[1]).value = references

\* Once imported, the table is the module global.
TableImported == pc # "import" => table = _BOOK_ALIASES

-----------------------------------------------------------------------------
(* C1 *)

\* the page with one space between every book token and its chapter
Spaced(p) == [p EXCEPT !.cits = [i \in DOMAIN p.cits |-> [p.cits[i] EXCEPT !.sep = <<" ">>]]]

\* C1: a text whose book tokens run directly onto the chapter digits gives
\* the same references as the text with one space between token and chapter.
C1_ZeroWidthSeparator ==
    ScanReturned => references = find_references(PageText(Spaced(page))).value

(* C2 *)

\* every citation is of a known book, with one whitespace character before
\* the chapter and a verse range, and the citations are joined by "; "
PlainPage(p) ==
    /\ Len(p.cits) >= 1
    /\ p.join = <<";", " ">>
    /\ \A i \in DOMAIN p.cits :
        /\ p.cits[i].token \in KnownTokens
        /\ Len(p.cits[i].sep) = 1 /\ p.cits[i].sep[1] \in WhiteSpace
        /\ p.cits[i].verses \in RangeParts

FirstCitation(p, r) == Min({i \in DOMAIN p.cits : CitedReference(p.cits[i]) = r})

\* C2: for citations of known books with a chapter and a verse range, joined
\* by ";", find_references returns one reference per distinct citation, with
\* the cited book, chapter and range, in the order of the text.
C2_OnePerCitationInOrder ==
    ScanReturned /\ PlainPage(page) =>
        /\ \A i \in DOMAIN page.cits :
            \E j \in DOMAIN references : references[j] = CitedReference(page.cits[i])
        /\ \A j \in DOMAIN references :
            \E i \in DOMAIN page.cits : references[j] = CitedReference(page.cits[i])
        /\ \A j, k \in DOMAIN references :
            j < k => FirstCitation(page, references[j]) < FirstCitation(page, references[k])

C2_Witness ==
    /\ ScanReturned
    /\ PlainPage(page)
    /\ Len(page.cits) = 2
    /\ page.cits[1].token = Lk
    /\ page.cits[2].token = Kor1
    /\ Len(references) = 2

(* C3 *)

\* the same citation printed in two ways
SameCitationTwice(p) ==
    /\ Len(p.cits) = 2
    /\ p.cits[1].token \in KnownTokens
    /\ p.cits[1].token = p.cits[2].token
    /\ p.cits[1].chapter = p.cits[2].chapter
    /\ p.cits[1].sep = <<" ">> /\ p.cits[2].sep = <<" ">>
    /\ p.cits[1].verses = Range13
    /\ p.cits[2].verses = Range13Dash
    /\ p.join = <<";", " ">>

C3_State ==
    /\ \A i, j \in DOMAIN references : i # j => FiveFields(references[i]) # FiveFields(references[j])
    /\ seen = {FiveFields(references[i]) : i \in DOMAIN references}
    /\ ScanReturned /\ SameCitationTwice(page) => Len(references) = 1

C3_Step ==
    /\ IsPrefix(references, references')
    /\ pending # <<>> /\ pending' = Tail(pending) =>
        references' = IF \E i \in DOMAIN references : FiveFields(references[i]) = FiveFields(Head(pending))
                      THEN references
                      ELSE Append(references, Head(pending))

\* C3: at every point of the scan no two accumulated references agree on all
\* five fields, `seen` is the set of the five-field keys of the list, a kept
\* reference keeps the position of its first occurrence (the list only grows
\* at its end, by a reference whose key is new), and two different spellings
\* of one citation give one reference.
C3_Deduplication == [](C3_State) /\ [][C3_Step]_vars

C3_Witness ==
    /\ ScanReturned
    /\ SameCitationTwice(page)
    /\ Len(built) = 2
    /\ Len(references) = 1

(* C4 *)

\* C4: a match whose normalized book token is no key of the alias table is
\* dropped without a call of _build_reference and adds nothing, and
\* _build_reference is only called with the book the table gives for the
\* match's normalized token.
C4_UnknownNeverBuilt ==
    /\ \A k \in DOMAIN built :
        /\ KnownKey(built[k].raw)
        /\ built[k].book = table[_normalize_key(built[k].raw)]
    /\ \A r \in DOMAIN references : \E k \in DOMAIN built : references[r].book = built[k].book
    /\ ScanReturned =>
        LET ms == AllMatches(NormalizeText(text[1]), 1)
        IN  /\ [k \in DOMAIN built |-> built[k].raw]
               = SelectSeq([i \in DOMAIN ms |-> ms[i].book], KnownKey)
            /\ skipped = SelectSeq([i \in DOMAIN ms |-> ms[i].book], LAMBDA raw : ~KnownKey(raw))

C4_Witness ==
    /\ ScanReturned
    /\ Len(skipped) = 1
    /\ Len(built) = 1
    /\ Len(references) = 1

(* C5 *)

\* C5: for every alias a listed for book B, the table maps _normalize_key(a)
\* to B; every key of the table is the normalized form of a listed alias, and
\* no key is listed for two books.  (Stated of the table as the import
\* leaves it, which is the table of every later state.)
C5_AliasTableIntegrity ==
    /\ pc # "import" => table = _BOOK_ALIASES
    /\ pc = "ready" =>
        /\ \A i \in DOMAIN _RAW_BOOK_ALIASES : \A j \in DOMAIN _RAW_BOOK_ALIASES[i][2] :
            DictGet(table, _normalize_key(_RAW_BOOK_ALIASES[i][2][j])) = _RAW_BOOK_ALIASES[i][1]
        /\ DOMAIN table = {_normalize_key(AliasInsertions[n].key) : n \in DOMAIN AliasInsertions}
        /\ \A m, n \in DOMAIN AliasInsertions :
            AliasInsertions[m].key = AliasInsertions[n].key
                => AliasInsertions[m].book = AliasInsertions[n].book

C5_Witness ==
    /\ pc = "ready"
    /\ imp = Len(AliasInsertions)
    /\ Cardinality(DOMAIN table) = imp
    /\ DictGet(table, _normalize_key(Lk)) = "LUKE"

(* C6 *)

Invalid(k) == built[k].signal = "InvalidBibleParserError"

\* C6: when the parser signals an invalid reference, no exception leaves
\* find_references, the references accumulated before the call are unchanged
\* by it, and every later candidate is still processed.
C6_InvalidReferenceRecovery ==
    /\ \A k \in DOMAIN built : Invalid(k) =>
        /\ pc # "raised"
        /\ IF k < Len(built) THEN built[k + 1].before = built[k].before
           ELSE references = built[k].before /\ pending = <<>>
    /\ ScanReturned /\ (\E k \in DOMAIN built : Invalid(k)) =>
        Len(built) + Len(skipped) = Len(AllMatches(NormalizeText(text[1]), 1))

C6_Witness ==
    /\ ScanReturned
    /\ Len(built) = 2
    /\ Invalid(1)
    /\ ~Invalid(2)
    /\ Len(references) = 1

(* C7 *)

\* form_valid caught the SiglaExtractionError of extract_text
ExtractionFailed == entry = "view" /\ response = "form_invalid"

\* C7: when the OCR engine is missing form_valid reports the error and shows
\* the form again without calling find_references or resolve_references, and
\* in a request both are called only after extract_text returned a str.
C7_OcrFailureAborts ==
    /\ ExtractionFailed =>
        /\ msgs = <<TESSERACT_MISSING, FORM_ERRORS>>
        /\ ~Called("find_references")
        /\ ~Called("resolve_references")
        /\ built = <<>> /\ skipped = <<>> /\ references = <<>> /\ results = <<>>
    /\ entry = "view" /\ (Called("find_references") \/ Called("resolve_references")) =>
        /\ text # Absent
        /\ calls[1] = "extract_text"

C7_Witness ==
    /\ ExtractionFailed
    /\ pc = "done"
    /\ Len(page.cits) = 1
    /\ msgs = <<TESSERACT_MISSING, FORM_ERRORS>>

(* C8 *)

Resolvable(r) == pb_convert_references_to_verse_ids(r) # <<>>

\* C8: resolve_references returns one result for each input reference that
\* has verse identifiers and none for the others, in input order, without
\* dropping repeats; the label is the single-reference format of the
\* reference and the text the rendered passage without surrounding whitespace.
C8_ResolveFiltersInOrder ==
    ResolveReturned =>
        LET kept == SelectSeq(input, Resolvable)
        IN  /\ Len(results) = Len(kept)
            /\ \A i \in DOMAIN results :
                LET rendered == pb_format_scripture_text(
                                    pb_convert_references_to_verse_ids(kept[i]), DEFAULT_VERSION)
                IN  /\ results[i].label = pb_format_single_reference(kept[i], DEFAULT_VERSION)
                    /\ results[i].text # <<>>
                    /\ results[i].text[1] \notin WhiteSpace
                    /\ results[i].text[Len(results[i].text)] \notin WhiteSpace
                    /\ \E a, b \in 0..Len(rendered) :
                        /\ rendered = SubSeq(rendered, 1, a) \o results[i].text
                                      \o SubSeq(rendered, Len(rendered) - b + 1, Len(rendered))
                        /\ \A n \in 1..a : rendered[n] \in WhiteSpace
                        /\ \A n \in (Len(rendered) - b + 1)..Len(rendered) : rendered[n] \in WhiteSpace

C8_Witness ==
    /\ entry = "resolve"
    /\ pc = "done"
    /\ Len(input) = 3
    /\ input[1] = input[3]
    /\ Resolvable(input[1])
    /\ ~Resolvable(input[2])
    /\ Len(results) = 2
    /\ results[1] = results[2]

(* C9 *)

\* C9: the sanitized verse-spec appended to the query string holds no
\* whitespace character (the query is the title, one space, the chapter and
\* the sanitized verse-spec).
C9_NoWhitespaceInQuery ==
    \A k \in DOMAIN built : \A i \in 3..Len(built[k].query) : built[k].query[i] \notin WhiteSpace

(* C10 *)

\* two citations of known books, each with a chapter and well-formed verses,
\* separated by whitespace only, the second with a numbered book token
AdjacentNumbered(p) ==
    /\ Len(p.cits) = 2
    /\ p.join = <<"\n">>
    /\ p.cits[1].token \in KnownTokens /\ p.cits[1].sep = <<" ">>
    /\ p.cits[2].token = Kor1 /\ p.cits[2].sep = <<" ">>
    /\ \A i \in 1..2 : p.cits[i].verses \in RangeParts \cup {<<",", "2", ",", "4">>}

\* C10: the verse-spec of a citation does not take in the start of the next
\* citation: the two citations give the references of the first scanned
\* alone followed by those of the second scanned alone, and the second
\* match's book token keeps its numeral.
C10_NoAbsorption ==
    ScanReturned /\ AdjacentNumbered(page) =>
        /\ references = AddReferences(find_references(CitationText(page.cits[1])).value,
                                      find_references(CitationText(page.cits[2])).value)
        /\ Len(built) = 2
        /\ built[2].raw = Kor1
====
